---------------------------- MODULE Spec2Model ----------------------------
(***************************************************************************)
(* Pose-validation engine and frame cycle of the physiotherapy exercise    *)
(* coach (src/frontend/exercises.js), and the acceptance of a consultation *)
(* by its server (src/backend/server.js).                                  *)
(*                                                                         *)
(* Numbers.  Pixel coordinates are integers.  Confidence scores are in     *)
(* hundredths (0.4 is 40).  Angles are in thousandths of a degree.  The    *)
(* status glyphs that open a message are written as ASCII tags: "[ok] ",   *)
(* "[warn] " and "[retry] ".  A message is the sequence of the string      *)
(* pieces the code concatenates, in order.                                 *)
(***************************************************************************)
EXTENDS Integers, Sequences, FiniteSets, TLC

VARIABLES
    selectedExercise,   \* the active-exercise selector (line 37)
    pc,                 \* which specification's step comes next
    pose,               \* the pose handed to the validator in this frame
    validation,         \* what validatePose returned for it
    feedbackText,       \* feedback.innerText
    feedbackColor,      \* feedback.style.color
    awaiting,           \* detectPose invocations suspended at the estimator call
    rafQueue,           \* callbacks queued by requestAnimationFrame
    frames,             \* detectPose invocations started so far (saturating)
    rendered,           \* record of the last cycle's rendering
    memo,               \* one validator call of an earlier cycle, remembered
    angleArgs,          \* arguments of a calculateAngle call
    angleResult,        \* what that call returned
    consultations,      \* the Consultation collection of the server's database
    requests            \* each user's POST /api/consultations/accept request

vars == <<selectedExercise, pc, pose, validation, feedbackText, feedbackColor,
          awaiting, rafQueue, frames, rendered, memo, angleArgs, angleResult,
          consultations, requests>>

-----------------------------------------------------------------------------
(* Values *)

\* The score below which a keypoint is rejected: the literal 0.4.
MinScore == 40

Abs(n) == IF n < 0 THEN -n ELSE n

\* A keypoint {name, x, y, score}; Undefined is what Array.find returns when no
\* keypoint has the name.
Kp(s, x, y) == [present |-> TRUE, score |-> s, x |-> x, y |-> y]
Undefined == [present |-> FALSE, score |-> 0, x |-> 0, y |-> 0]

JointNames ==
    {"nose", "left_ear", "right_ear", "left_shoulder", "right_shoulder",
     "left_elbow", "right_elbow", "left_wrist", "right_wrist",
     "left_hip", "right_hip", "left_knee", "right_knee",
     "left_ankle", "right_ankle"}

\* pose.keypoints.find(kp => kp.name === name)
getKeypoint(p, name) == p[name]

\* The five exercises, by id; NoExercise is selectedExercise = null.
Exercise(i) == [isNull |-> FALSE, id |-> i]
EXERCISES == {Exercise(i) : i \in 1..5}
NoExercise == [isNull |-> TRUE, id |-> 0]

\* A ValidationResult {isValid, message}.  threw marks a call that raised a
\* TypeError (a property read on undefined) instead of returning.
Result(v, m) == [threw |-> FALSE, isValid |-> v, message |-> m]
TypeError == [threw |-> TRUE, isValid |-> FALSE, message |-> <<>>]
NoResult == [threw |-> FALSE, isValid |-> FALSE, message |-> <<>>]

-----------------------------------------------------------------------------
(* Math.atan2, Math.round and division *)

RECURSIVE Gcd(_, _)
Gcd(a, b) == IF b = 0 THEN a ELSE Gcd(b, a % b)

\* atan(a/b) for 0 <= a <= b, 1 <= b <= 50, in thousandths of a degree, to the
\* nearest: AtanMilli[b][a + 1].
AtanMilli == <<
    <<0, 45000>>,
    <<0, 26565, 45000>>,
    <<0, 18435, 33690, 45000>>,
    <<0, 14036, 26565, 36870, 45000>>,
    <<0, 11310, 21801, 30964, 38660, 45000>>,
    <<0, 9462, 18435, 26565, 33690, 39806, 45000>>,
    <<0, 8130, 15945, 23199, 29745, 35538, 40601, 45000>>,
    <<0, 7125, 14036, 20556, 26565, 32005, 36870, 41186, 45000>>,
    <<0, 6340, 12529, 18435, 23962, 29055, 33690, 37875, 41634, 45000>>,
    <<0, 5711, 11310, 16699, 21801, 26565, 30964, 34992, 38660, 41987, 45000>>,
    <<0, 5194, 10305, 15255, 19983, 24444, 28610, 32471, 36027, 39289, 42274,
      45000>>,
    <<0, 4764, 9462, 14036, 18435, 22620, 26565, 30256, 33690, 36870, 39806,
      42510, 45000>>,
    <<0, 4399, 8746, 12995, 17103, 21038, 24775, 28301, 31608, 34695, 37569,
      40236, 42709, 45000>>,
    <<0, 4086, 8130, 12095, 15945, 19654, 23199, 26565, 29745, 32735, 35538,
      38157, 40601, 42879, 45000>>,
    <<0, 3814, 7595, 11310, 14931, 18435, 21801, 25017, 28072, 30964, 33690,
      36254, 38660, 40914, 43025, 45000>>,
    <<0, 3576, 7125, 10620, 14036, 17354, 20556, 23629, 26565, 29358, 32005,
      34509, 36870, 39094, 41186, 43152, 45000>>,
    <<0, 3366, 6710, 10008, 13241, 16390, 19440, 22380, 25201, 27897, 30466,
      32905, 35218, 37405, 39472, 41424, 43264, 45000>>,
    <<0, 3180, 6340, 9462, 12529, 15524, 18435, 21251, 23962, 26565, 29055,
      31430, 33690, 35838, 37875, 39806, 41634, 43363, 45000>>,
    <<0, 3013, 6009, 8973, 11889, 14744, 17526, 20225, 22834, 25346, 27759,
      30069, 32276, 34380, 36384, 38290, 40101, 41820, 43452, 45000>>,
    <<0, 2862, 5711, 8531, 11310, 14036, 16699, 19290, 21801, 24228, 26565,
      28811, 30964, 33024, 34992, 36870, 38660, 40365, 41987, 43531, 45000>>,
    <<0, 2726, 5440, 8130, 10784, 13392, 15945, 18435, 20854, 23199, 25463,
      27646, 29745, 31759, 33690, 35538, 37304, 38991, 40601, 42138, 43603,
      45000>>,
    <<0, 2603, 5194, 7765, 10305, 12804, 15255, 17650, 19983, 22249, 24444,
      26565, 28610, 30579, 32471, 34287, 36027, 37694, 39289, 40815, 42274,
      43668, 45000>>,
    <<0, 2490, 4970, 7431, 9866, 12265, 14621, 16928, 19179, 21371, 23499,
      25560, 27553, 29476, 31329, 33111, 34824, 36469, 38047, 39560, 41009,
      42397, 43727, 45000>>,
    <<0, 2386, 4764, 7125, 9462, 11768, 14036, 16260, 18435, 20556, 22620,
      24624, 26565, 28443, 30256, 32005, 33690, 35311, 36870, 38367, 39806,
      41186, 42510, 43781, 45000>>,
    <<0, 2291, 4574, 6843, 9090, 11310, 13496, 15642, 17745, 19799, 21801,
      23749, 25641, 27474, 29249, 30964, 32619, 34216, 35754, 37235, 38660,
      40030, 41348, 42614, 43831, 45000>>,
    <<0, 2203, 4399, 6582, 8746, 10886, 12995, 15068, 17103, 19093, 21038,
      22932, 24775, 26565, 28301, 29982, 31608, 33179, 34695, 36158, 37569,
      38928, 40236, 41496, 42709, 43877, 45000>>,
    <<0, 2121, 4236, 6340, 8427, 10491, 12529, 14534, 16504, 18435, 20323,
      22166, 23962, 25710, 27408, 29055, 30651, 32196, 33690, 35134, 36529,
      37875, 39174, 40426, 41634, 42797, 43919, 45000>>,
    <<0, 2045, 4086, 6116, 8130, 10125, 12095, 14036, 15945, 17819, 19654,
      21448, 23199, 24905, 26565, 28179, 29745, 31264, 32735, 34160, 35538,
      36870, 38157, 39401, 40601, 41760, 42879, 43958, 45000>>,
    <<0, 1975, 3945, 5906, 7853, 9782, 11689, 13570, 15422, 17241, 19026,
      20772, 22479, 24146, 25769, 27350, 28887, 30379, 31827, 33232, 34592,
      35910, 37185, 38418, 39611, 40764, 41878, 42955, 43995, 45000>>,
    <<0, 1909, 3814, 5711, 7595, 9462, 11310, 13134, 14931, 16699, 18435,
      20136, 21801, 23429, 25017, 26565, 28072, 29539, 30964, 32347, 33690,
      34992, 36254, 37476, 38660, 39806, 40914, 41987, 43025, 44029, 45000>>,
    <<0, 1848, 3691, 5528, 7352, 9162, 10954, 12724, 14470, 16189, 17879,
      19537, 21161, 22751, 24305, 25821, 27300, 28740, 30141, 31504, 32829,
      34114, 35362, 36573, 37747, 38884, 39987, 41055, 42089, 43091, 44061,
      45000>>,
    <<0, 1790, 3576, 5356, 7125, 8881, 10620, 12339, 14036, 15709, 17354,
      18970, 20556, 22109, 23629, 25115, 26565, 27979, 29358, 30700, 32005,
      33275, 34509, 35707, 36870, 37999, 39094, 40156, 41186, 42184, 43152,
      44091, 45000>>,
    <<0, 1736, 3468, 5194, 6911, 8616, 10305, 11976, 13627, 15255, 16858,
      18435, 19983, 21501, 22989, 24444, 25866, 27255, 28610, 29932, 31218,
      32471, 33690, 34875, 36027, 37147, 38234, 39289, 40314, 41309, 42274,
      43210, 44119, 45000>>,
    <<0, 1685, 3366, 5042, 6710, 8366, 10008, 11634, 13241, 14826, 16390,
      17928, 19440, 20925, 22380, 23806, 25201, 26565, 27897, 29197, 30466,
      31701, 32905, 34077, 35218, 36327, 37405, 38454, 39472, 40462, 41424,
      42357, 43264, 44145, 45000>>,
    <<0, 1637, 3270, 4899, 6520, 8130, 9728, 11310, 12875, 14421, 15945,
      17447, 18925, 20376, 21801, 23199, 24567, 25907, 27216, 28496, 29745,
      30964, 32152, 33311, 34439, 35538, 36607, 37648, 38660, 39644, 40601,
      41532, 42436, 43315, 44170, 45000>>,
    <<0, 1591, 3180, 4764, 6340, 7907, 9462, 11004, 12529, 14036, 15524,
      16991, 18435, 19855, 21251, 22620, 23962, 25278, 26565, 27824, 29055,
      30256, 31430, 32574, 33690, 34778, 35838, 36870, 37875, 38853, 39806,
      40732, 41634, 42510, 43363, 44193, 45000>>,
    <<0, 1548, 3094, 4635, 6170, 7696, 9211, 10713, 12200, 13671, 15124,
      16557, 17969, 19359, 20726, 22068, 23385, 24677, 25942, 27181, 28393,
      29578, 30735, 31866, 32969, 34046, 35096, 36119, 37117, 38089, 39036,
      39958, 40855, 41730, 42580, 43409, 44215, 45000>>,
    <<0, 1507, 3013, 4514, 6009, 7496, 8973, 10437, 11889, 13325, 14744,
      16144, 17526, 18886, 20225, 21541, 22834, 24102, 25346, 26565, 27759,
      28926, 30069, 31185, 32276, 33341, 34380, 35395, 36384, 37349, 38290,
      39207, 40101, 40972, 41820, 42647, 43452, 44236, 45000>>,
    <<0, 1469, 2936, 4399, 5856, 7306, 8746, 10176, 11592, 12995, 14381,
      15751, 17103, 18435, 19747, 21038, 22306, 23552, 24775, 25974, 27150,
      28301, 29427, 30530, 31608, 32661, 33690, 34695, 35676, 36634, 37569,
      38480, 39369, 40236, 41082, 41906, 42709, 43493, 44256, 45000>>,
    <<0, 1432, 2862, 4289, 5711, 7125, 8531, 9926, 11310, 12680, 14036,
      15376, 16699, 18004, 19290, 20556, 21801, 23025, 24228, 25408, 26565,
      27699, 28811, 29899, 30964, 32005, 33024, 34019, 34992, 35942, 36870,
      37776, 38660, 39523, 40365, 41186, 41987, 42769, 43531, 44275, 45000>>,
    <<0, 1397, 2793, 4185, 5572, 6953, 8326, 9689, 11041, 12381, 13707,
      15018, 16314, 17592, 18853, 20095, 21318, 22521, 23703, 24864, 26003,
      27121, 28217, 29291, 30343, 31373, 32381, 33366, 34330, 35272, 36193,
      37093, 37972, 38830, 39668, 40486, 41285, 42064, 42825, 43568, 44293,
      45000>>,
    <<0, 1364, 2726, 4086, 5440, 6789, 8130, 9462, 10784, 12095, 13392,
      14676, 15945, 17199, 18435, 19654, 20854, 22036, 23199, 24341, 25463,
      26565, 27646, 28706, 29745, 30763, 31759, 32735, 33690, 34624, 35538,
      36431, 37304, 38157, 38991, 39806, 40601, 41379, 42138, 42879, 43603,
      44310, 45000>>,
    <<0, 1332, 2663, 3991, 5315, 6633, 7943, 9246, 10539, 11821, 13092,
      14349, 15593, 16821, 18034, 19231, 20410, 21571, 22714, 23839, 24944,
      26030, 27096, 28142, 29168, 30174, 31159, 32125, 33071, 33996, 34902,
      35789, 36656, 37504, 38333, 39144, 39936, 40711, 41468, 42207, 42930,
      43636, 44326, 45000>>,
    <<0, 1302, 2603, 3900, 5194, 6483, 7765, 9039, 10305, 11560, 12804,
      14036, 15255, 16460, 17650, 18825, 19983, 21125, 22249, 23356, 24444,
      25514, 26565, 27597, 28610, 29604, 30579, 31535, 32471, 33389, 34287,
      35166, 36027, 36870, 37694, 38501, 39289, 40061, 40815, 41553, 42274,
      42979, 43668, 44341, 45000>>,
    <<0, 1273, 2545, 3814, 5080, 6340, 7595, 8842, 10081, 11310, 12529,
      13736, 14931, 16113, 17281, 18435, 19573, 20695, 21801, 22891, 23962,
      25017, 26053, 27072, 28072, 29055, 30018, 30964, 31891, 32800, 33690,
      34563, 35417, 36254, 37073, 37875, 38660, 39428, 40179, 40914, 41634,
      42337, 43025, 43698, 44356, 45000>>,
    <<0, 1245, 2490, 3731, 4970, 6203, 7431, 8653, 9866, 11070, 12265, 13449,
      14621, 15781, 16928, 18060, 19179, 20283, 21371, 22443, 23499, 24538,
      25560, 26565, 27553, 28523, 29476, 30411, 31329, 32229, 33111, 33977,
      34824, 35655, 36469, 37266, 38047, 38811, 39560, 40292, 41009, 41711,
      42397, 43069, 43727, 44370, 45000>>,
    <<0, 1219, 2437, 3652, 4865, 6072, 7275, 8471, 9660, 10840, 12011, 13173,
      14323, 15461, 16587, 17700, 18800, 19885, 20956, 22011, 23051, 24075,
      25084, 26075, 27051, 28009, 28951, 29876, 30784, 31675, 32550, 33408,
      34249, 35074, 35882, 36674, 37451, 38211, 38956, 39685, 40400, 41100,
      41785, 42455, 43112, 43755, 44384, 45000>>,
    <<0, 1193, 2386, 3576, 4764, 5947, 7125, 8297, 9462, 10620, 11768, 12907,
      14036, 15154, 16260, 17354, 18435, 19502, 20556, 21595, 22620, 23629,
      24624, 25602, 26565, 27512, 28443, 29358, 30256, 31139, 32005, 32856,
      33690, 34509, 35311, 36098, 36870, 37626, 38367, 39094, 39806, 40503,
      41186, 41855, 42510, 43152, 43781, 44397, 45000>>,
    <<0, 1169, 2337, 3504, 4667, 5826, 6981, 8130, 9273, 10408, 11535, 12653,
      13761, 14859, 15945, 17021, 18083, 19134, 20171, 21194, 22203, 23199,
      24179, 25145, 26095, 27031, 27951, 28856, 29745, 30619, 31477, 32320,
      33147, 33959, 34756, 35538, 36304, 37057, 37794, 38517, 39226, 39920,
      40601, 41269, 41923, 42563, 43191, 43807, 44409, 45000>>,
    <<0, 1146, 2291, 3434, 4574, 5711, 6843, 7970, 9090, 10204, 11310, 12407,
      13496, 14574, 15642, 16699, 17745, 18778, 19799, 20807, 21801, 22782,
      23749, 24702, 25641, 26565, 27474, 28369, 29249, 30114, 30964, 31799,
      32619, 33425, 34216, 34992, 35754, 36501, 37235, 37954, 38660, 39352,
      40030, 40696, 41348, 41987, 42614, 43229, 43831, 44421, 45000>>
  >>

\* atan of a first-quadrant direction (dx >= 0, dy >= 0, not both 0).
QuadrantAtan(dy, dx) ==
    LET g == Gcd(dx, dy)
        a == dy \div g
        b == dx \div g
        t == AtanMilli[IF a <= b THEN b ELSE a][(IF a <= b THEN a ELSE b) + 1]
    IN  IF a <= b THEN t ELSE 90000 - t

\* Math.atan2(dy, dx) * 180 / Math.PI, in thousandths of a degree, in
\* (-180000, 180000].  atan2(0, 0) is 0; the differences of integers the code
\* passes are never -0.
Atan2Milli(dy, dx) ==
    IF dx = 0 /\ dy = 0 THEN 0
    ELSE LET q == QuadrantAtan(Abs(dy), Abs(dx))
             h == IF dx < 0 THEN 180000 - q ELSE q
         IN  IF dy < 0 THEN -h ELSE h

\* A JavaScript quotient a / b of integers, a >= 0, b >= 0: a finite fraction,
\* Infinity (b = 0 < a) or NaN (0 / 0).
Quotient(a, b) ==
    IF b # 0 THEN [kind |-> "finite", num |-> a, den |-> b]
    ELSE IF a = 0 THEN [kind |-> "NaN", num |-> 0, den |-> 1]
    ELSE [kind |-> "Infinity", num |-> 1, den |-> 1]

\* q > t for a quotient q and an integer t; every comparison with NaN is false.
QuotientGt(q, t) ==
    CASE q.kind = "NaN" -> FALSE
      [] q.kind = "Infinity" -> TRUE
      [] OTHER -> q.num > t * q.den

\* Math.round of a finite non-negative quotient: floor(q + 1/2).
RoundQuotient(q) == (2 * q.num + q.den) \div (2 * q.den)

\* A calculateAngle result: null or a number of thousandths of a degree.
NullAngle == [isNull |-> TRUE, mdeg |-> 0]
Angle(a) == [isNull |-> FALSE, mdeg |-> a]

\* JavaScript truthiness of an angle: null and 0 are falsy.
Truthy(a) == ~a.isNull /\ a.mdeg # 0

\* The number an angle is in a comparison or a subtraction: null converts to 0.
Num(a) == IF a.isNull THEN 0 ELSE a.mdeg

-----------------------------------------------------------------------------
(* calculateAngle (lines 92-103) *)

\* Reflect without its reflection: line 101 left out.
ReflectNever(a) == a

\* The reflection of line 101.
Reflect(a) == IF a > 180000 THEN 360000 - a ELSE a

calculateAngle(point1, point2, point3) ==
    IF \/ ~point1.present \/ ~point2.present \/ ~point3.present
       \/ point1.score < MinScore \/ point2.score < MinScore
       \/ point3.score < MinScore
    THEN NullAngle
    ELSE LET radians == Atan2Milli(point3.y - point2.y, point3.x - point2.x)
                        - Atan2Milli(point1.y - point2.y, point1.x - point2.x)
         IN  Angle(Reflect(Abs(radians)))

-----------------------------------------------------------------------------
(* validateNeckRotation (lines 129-178) *)

MsgNeckGate == "[warn] Position yourself so your face and shoulders are clearly visible"
MsgNeckExcellent == "Excellent rotation! Hold for 2-3 seconds, then slowly return to center"
MsgNeckGood == "Good rotation! Try rotating a bit more to the "
MsgNeckStart == "Nice start! Rotate your head further to the "
MsgNeckTilt == " Keep your head level - avoid tilting up or down"
MsgNeckMore == "[retry] Rotate your head more to the "
MsgNeckGeneric == "[retry] Start by rotating your head slowly to the left or right. Keep your shoulders facing forward and only move your neck. Aim for a 45-degree rotation."

\* Line 136: the gate of the neck rotation.
NeckGate(nose, leftShoulder, rightShoulder) ==
    \/ ~nose.present \/ nose.score < MinScore
    \/ ~leftShoulder.present \/ ~rightShoulder.present

\* Lines 141-142, doubled: 2 * (nose.x - shoulderCenterX).
NeckOffset2(nose, leftShoulder, rightShoulder) ==
    2 * nose.x - (leftShoulder.x + rightShoulder.x)

\* Lines 143-145: (offsetAbs / shoulderWidth) * 100.
rotationPercent(nose, leftShoulder, rightShoulder) ==
    Quotient(Abs(NeckOffset2(nose, leftShoulder, rightShoulder)) * 100,
             2 * Abs(leftShoulder.x - rightShoulder.x))

\* NeckTilt that warns from a difference of 10 px on.
NeckTiltFrom10(leftEar, rightEar) ==
    IF /\ leftEar.present /\ leftEar.score > MinScore
       /\ rightEar.present /\ rightEar.score > MinScore
       /\ Abs(leftEar.y - rightEar.y) >= 10
    THEN <<MsgNeckTilt>> ELSE <<>>

\* Lines 164-169.
NeckTilt(leftEar, rightEar) ==
    IF /\ leftEar.present /\ leftEar.score > MinScore
       /\ rightEar.present /\ rightEar.score > MinScore
       /\ Abs(leftEar.y - rightEar.y) > 10
    THEN <<MsgNeckTilt>> ELSE <<>>

\* NeckQuality with the excellent band starting at 40 instead of above it.
NeckQualityFrom40(rp, direction) ==
    IF rp.kind = "Infinity" \/ (rp.kind = "finite" /\ rp.num >= 40 * rp.den)
    THEN <<MsgNeckExcellent>>
    ELSE IF QuotientGt(rp, 30) THEN <<MsgNeckGood, direction>>
    ELSE <<MsgNeckStart, direction, " - aim for 45 degrees">>

\* Lines 155-161.
NeckQuality(rp, direction) ==
    IF QuotientGt(rp, 40) THEN <<MsgNeckExcellent>>
    ELSE IF QuotientGt(rp, 30) THEN <<MsgNeckGood, direction>>
    ELSE <<MsgNeckStart, direction, " - aim for 45 degrees">>

validateNeckRotation(p) ==
    LET nose == getKeypoint(p, "nose")
        leftShoulder == getKeypoint(p, "left_shoulder")
        rightShoulder == getKeypoint(p, "right_shoulder")
        leftEar == getKeypoint(p, "left_ear")
        rightEar == getKeypoint(p, "right_ear")
    IN  IF NeckGate(nose, leftShoulder, rightShoulder)
        THEN Result(FALSE, <<MsgNeckGate>>)
        ELSE IF ~nose.present \/ ~leftShoulder.present \/ ~rightShoulder.present
        THEN TypeError
        ELSE LET rp == rotationPercent(nose, leftShoulder, rightShoulder)
                 direction ==
                     IF NeckOffset2(nose, leftShoulder, rightShoulder) > 0
                     THEN "right" ELSE "left"
             IN  IF QuotientGt(rp, 20)
                 THEN Result(TRUE, <<"[ok] ">> \o NeckQuality(rp, direction)
                                   \o NeckTilt(leftEar, rightEar)
                                   \o <<". Move slowly and smoothly.">>)
                 ELSE IF QuotientGt(rp, 10)
                 THEN Result(FALSE, <<MsgNeckMore, direction, ". You're at about ",
                                      ToString(RoundQuotient(rp)),
                                      " degrees - aim for 45 degrees. Keep your shoulders still.">>)
                 ELSE Result(FALSE, <<MsgNeckGeneric>>)

-----------------------------------------------------------------------------
(* validateShoulderFlexion (lines 180-245) *)

MsgShoulderGate == "[warn] Please ensure your shoulders are visible in the camera"
MsgArmExcellent == "Excellent! Your "
MsgArmGood == "Good! Your "
MsgArmSlight == " arm is slightly raised. "
MsgArmStraight == "Keep your arm straight and fully extended toward the ceiling."
MsgArmElbow == "[warn] Straighten your elbow more - your arm should be fully extended."
MsgArmHigher == "[retry] Raise your "
MsgArmGeneric == "[retry] Raise one arm straight up toward the ceiling. Keep your elbow straight, palm facing forward, and lift slowly until your arm is fully vertical. Keep your other arm relaxed at your side."

\* Line 188: the gate of the shoulder flexion.
ShoulderGate(leftShoulder, rightShoulder) ==
    \/ ~leftShoulder.present \/ ~rightShoulder.present
    \/ leftShoulder.score < MinScore \/ rightShoulder.score < MinScore

\* Lines 195-196 and 203-204: whether one arm is analysed.
ArmAnalysed(wrist, shoulder, elbow) ==
    /\ wrist.present /\ shoulder.present /\ elbow.present
    /\ wrist.score > MinScore /\ shoulder.score > MinScore
    /\ elbow.score > MinScore

\* Lines 197-200 and 205-208: the analysis of one arm, or null.
ArmAnalysis(wrist, shoulder, elbow, side) ==
    IF ArmAnalysed(wrist, shoulder, elbow)
    THEN [isNull |-> FALSE,
          heightDiff |-> shoulder.y - wrist.y,
          armAngle |-> calculateAngle(shoulder, elbow, wrist),
          isRaised |-> wrist.y < shoulder.y,
          side |-> side]
    ELSE [isNull |-> TRUE, heightDiff |-> 0, armAngle |-> NullAngle,
          isRaised |-> FALSE, side |-> side]

\* Lines 217-223; heightPercent = (heightDiff / 100) * 100 is heightDiff.
ArmBand(arm) ==
    IF arm.heightDiff > 30
    THEN <<MsgArmExcellent, arm.side, " arm is well raised above your shoulder. ">>
    ELSE IF arm.heightDiff > 15
    THEN <<MsgArmGood, arm.side, " arm is raised. ">>
    ELSE <<"Your ", arm.side, MsgArmSlight>>

\* Lines 226-230.
ArmStraightness(arm) ==
    IF Truthy(arm.armAngle) /\ arm.armAngle.mdeg > 150000 /\ arm.armAngle.mdeg < 210000
    THEN <<MsgArmStraight>>
    ELSE IF Truthy(arm.armAngle) /\ arm.armAngle.mdeg < 150000
    THEN <<MsgArmElbow>>
    ELSE <<>>

validateShoulderFlexion(p) ==
    LET leftShoulder == getKeypoint(p, "left_shoulder")
        rightShoulder == getKeypoint(p, "right_shoulder")
        leftElbow == getKeypoint(p, "left_elbow")
        rightElbow == getKeypoint(p, "right_elbow")
        leftWrist == getKeypoint(p, "left_wrist")
        rightWrist == getKeypoint(p, "right_wrist")
    IN  IF ShoulderGate(leftShoulder, rightShoulder)
        THEN Result(FALSE, <<MsgShoulderGate>>)
        ELSE LET leftAnalysis == ArmAnalysis(leftWrist, leftShoulder, leftElbow, "left")
                 rightAnalysis == ArmAnalysis(rightWrist, rightShoulder, rightElbow, "right")
                 bestArm == IF leftAnalysis.isRaised THEN leftAnalysis
                            ELSE rightAnalysis
                 arm == IF ~leftAnalysis.isNull THEN leftAnalysis ELSE rightAnalysis
             IN  IF leftAnalysis.isRaised \/ rightAnalysis.isRaised
                 THEN Result(TRUE, <<"[ok] ">> \o ArmBand(bestArm)
                                   \o ArmStraightness(bestArm)
                                   \o <<" Keep your back straight and hold for 5 seconds.">>)
                 ELSE IF (~leftAnalysis.isNull \/ ~rightAnalysis.isNull)
                         /\ arm.heightDiff < 0
                 THEN Result(FALSE, <<MsgArmHigher, arm.side,
                                      " arm higher. Your wrist should be well above your shoulder. Lift straight up toward the ceiling, not forward.">>)
                 ELSE Result(FALSE, <<MsgArmGeneric>>)

-----------------------------------------------------------------------------
(* validateKneeExtension (lines 247-333) *)

MsgKneeGate == "[warn] Please sit so your hips and knees are visible in the camera"
MsgKneePerfect == "[ok] Perfect! Your "
MsgKneeExcellent == "Excellent straight leg! "
MsgKneeBitMore == "Try to straighten it a bit more - aim for 180 degrees. "
MsgKneeUpright == "[warn] Make sure you're sitting upright with your back straight. "
MsgKneeStraighten == "[retry] Straighten your "
MsgKneeOverextended == " leg appears overextended. Lower it slightly to a comfortable straight position. "
MsgKneeLeaning == "[warn] Make sure you're sitting upright, not leaning forward or backward."
MsgKneeFully == "[retry] Fully extend your knee. Sit upright, engage your quadriceps, and lift your foot until your leg is completely straight (180 degrees)."
MsgKneeGeneric == "[retry] Sit upright in a chair. Slowly extend one knee fully until your leg is straight. Keep your back straight and hold for 5 seconds before lowering."

\* KneeGate that forgets the knees.
KneeGateHipsOnly(leftHip, rightHip, leftKnee, rightKnee) ==
    ~leftHip.present \/ ~rightHip.present

\* Line 255: the gate of the knee extension.
KneeGate(leftHip, rightHip, leftKnee, rightKnee) ==
    ~leftHip.present \/ ~rightHip.present \/ ~leftKnee.present \/ ~rightKnee.present

\* Lines 263-264 and 269-270: whether one leg is measured.
LegMeasured(hip, knee, ankle) ==
    /\ hip.present /\ knee.present /\ ankle.present
    /\ hip.score > MinScore /\ knee.score > MinScore /\ ankle.score > MinScore

\* Lines 265 and 271.
LegAngle(hip, knee, ankle) ==
    IF LegMeasured(hip, knee, ankle) THEN calculateAngle(hip, knee, ankle)
    ELSE NullAngle

\* Lines 266 and 272.
Extended(angle) == Truthy(angle) /\ angle.mdeg > 160000 /\ angle.mdeg < 200000

\* Lines 288-292.
KneeQuality(extAngle) ==
    IF Truthy(extAngle) /\ extAngle.mdeg > 175000 /\ extAngle.mdeg < 185000
    THEN <<MsgKneeExcellent>> ELSE <<MsgKneeBitMore>>

\* Lines 317-323: the stage phrase of an invalid result; angle is
\* leftAngle || rightAngle, which may be null.
KneeStage(angle, side) ==
    IF Num(angle) < 160000
    THEN <<MsgKneeStraighten, side, " knee more. You're ",
           ToString((180000 - Num(angle) + 500) \div 1000),
           " degrees from full extension. ",
           "Sit tall, engage your thigh muscle, and lift your foot until your leg is completely straight. ">>
    ELSE IF Num(angle) > 200000
    THEN <<"[retry] Your ", side, MsgKneeOverextended>>
    ELSE <<>>

validateKneeExtension(p) ==
    LET leftHip == getKeypoint(p, "left_hip")
        rightHip == getKeypoint(p, "right_hip")
        leftKnee == getKeypoint(p, "left_knee")
        rightKnee == getKeypoint(p, "right_knee")
        leftAnkle == getKeypoint(p, "left_ankle")
        rightAnkle == getKeypoint(p, "right_ankle")
    IN  IF KneeGate(leftHip, rightHip, leftKnee, rightKnee)
        THEN Result(FALSE, <<MsgKneeGate>>)
        ELSE IF ~leftHip.present \/ ~rightHip.present
                \/ ~leftKnee.present \/ ~rightKnee.present
        THEN TypeError
        ELSE LET leftAngle == LegAngle(leftHip, leftKnee, leftAnkle)
                 rightAngle == LegAngle(rightHip, rightKnee, rightAnkle)
                 leftExtended == Extended(leftAngle)
                 rightExtended == Extended(rightAngle)
                 isSitting == leftHip.y + rightHip.y < leftKnee.y + rightKnee.y
                 extendedLeg == IF leftExtended THEN "left" ELSE "right"
                 extAngle == IF leftExtended THEN leftAngle ELSE rightAngle
                 otherExtended == IF leftExtended THEN rightExtended ELSE leftExtended
                 angle == IF Truthy(leftAngle) THEN leftAngle ELSE rightAngle
                 side == IF Truthy(leftAngle) THEN "left" ELSE "right"
                 feedback == KneeStage(angle, side)
                             \o (IF ~isSitting THEN <<MsgKneeLeaning>> ELSE <<>>)
             IN  IF leftExtended \/ rightExtended
                 THEN Result(TRUE,
                        <<MsgKneePerfect, extendedLeg, " knee is fully extended. ">>
                        \o KneeQuality(extAngle)
                        \o (IF ~isSitting THEN <<MsgKneeUpright>> ELSE <<"Good posture! ">>)
                        \o (IF ~otherExtended
                            THEN <<"Keep your other foot on the ground. Hold this position for 5 seconds, then slowly lower.">>
                            ELSE <<"You can extend one leg at a time - try focusing on one leg.">>))
                 ELSE IF ~leftAngle.isNull \/ ~rightAngle.isNull
                 THEN Result(FALSE, IF feedback # <<>> THEN feedback ELSE <<MsgKneeFully>>)
                 ELSE Result(FALSE, <<MsgKneeGeneric>>)

-----------------------------------------------------------------------------
(* validateHipBridge (lines 335-426) *)

MsgBridgeGate == "[warn] Please lie down so your full body (shoulders to hips) is visible in the camera. Position yourself side-on to the camera."
MsgBridgeLifted == "[ok] Great! Your hips are lifted. "
MsgBridgeExcellent == "Excellent height! "
MsgBridgeGood == "Good lift! Try lifting a bit higher. "
MsgBridgeAim == "You're lifting, but aim for higher. "
MsgBridgeKneesOk == "Keep your knees bent and feet flat on the ground. "
MsgBridgeKneesWarn == "[warn] Make sure your knees are bent at about 90 degrees with feet flat. "
MsgBridgeLevel == "[warn] Keep your hips level - avoid tilting to one side. "
MsgBridgeHigher == "[retry] Lift your hips higher. "
MsgBridgeStart == "You're still in the starting position. "
MsgBridgeNeed == "Your hips need to be higher than your shoulders. "
MsgBridgeBitMore == "Lift just a bit more - aim for your body to form a straight line from shoulders to knees. "
MsgBridgeLying == "[warn] Make sure you're lying on your back with knees bent at 90 degrees and feet flat. "
MsgBridgeSlowly == "Keep your knees bent, feet flat on the ground, and slowly lift your hips. "

\* Lines 345-347: the gate of the hip bridge.
BridgeGate(leftHip, rightHip, leftShoulder, rightShoulder) ==
    \/ ~leftHip.present \/ ~rightHip.present
    \/ ~leftShoulder.present \/ ~rightShoulder.present
    \/ leftHip.score < MinScore \/ rightHip.score < MinScore
    \/ leftShoulder.score < MinScore \/ rightShoulder.score < MinScore

\* Lines 352-355, doubled: 2 * (avgShoulderY - avgHipY); heightPercent is the
\* same number.
hipHeightDiff2(leftHip, rightHip, leftShoulder, rightShoulder) ==
    (leftShoulder.y + rightShoulder.y) - (leftHip.y + rightHip.y)

\* Lines 359-366: one knee's angle, or null.
BridgeKneeAngle(hip, knee, ankle) ==
    IF /\ hip.present /\ knee.present /\ ankle.present
       /\ knee.score > MinScore /\ ankle.score > MinScore
    THEN calculateAngle(hip, knee, ankle)
    ELSE NullAngle

\* Lines 369-370.
Bent(angle) == Truthy(angle) /\ angle.mdeg > 75000 /\ angle.mdeg < 150000

\* BridgeBand with the bands starting at 15 and 8 instead of above them.
BridgeBandFrom15(d2) ==
    IF d2 >= 2 * 15 THEN <<MsgBridgeExcellent>>
    ELSE IF d2 >= 2 * 8 THEN <<MsgBridgeGood>>
    ELSE <<MsgBridgeAim>>

\* Lines 377-383, on the doubled difference.
BridgeBand(d2) ==
    IF d2 > 2 * 15 THEN <<MsgBridgeExcellent>>
    ELSE IF d2 > 2 * 8 THEN <<MsgBridgeGood>>
    ELSE <<MsgBridgeAim>>

\* Lines 393-396.
BridgeLevel(leftHip, rightHip) ==
    IF Abs(leftHip.y - rightHip.y) > 15 THEN <<MsgBridgeLevel>> ELSE <<>>

\* BridgeStage as a chain in which the first check that matches wins.
BridgeStageFirstMatch(d2) ==
    IF Abs(d2) < 2 * 30 THEN <<MsgBridgeStart>>
    ELSE IF d2 < 0 THEN <<MsgBridgeNeed>>
    ELSE IF d2 < 2 * 5 THEN <<MsgBridgeBitMore>>
    ELSE <<>>

\* Lines 406-415, on the doubled difference.
BridgeStage(d2) ==
    (IF Abs(d2) < 2 * 30 THEN <<MsgBridgeStart>> ELSE <<>>)
    \o (IF d2 < 0 THEN <<MsgBridgeNeed>>
        ELSE IF d2 < 2 * 5 THEN <<MsgBridgeBitMore>>
        ELSE <<>>)

validateHipBridge(p) ==
    LET leftHip == getKeypoint(p, "left_hip")
        rightHip == getKeypoint(p, "right_hip")
        leftShoulder == getKeypoint(p, "left_shoulder")
        rightShoulder == getKeypoint(p, "right_shoulder")
        leftKnee == getKeypoint(p, "left_knee")
        rightKnee == getKeypoint(p, "right_knee")
        leftAnkle == getKeypoint(p, "left_ankle")
        rightAnkle == getKeypoint(p, "right_ankle")
    IN  IF BridgeGate(leftHip, rightHip, leftShoulder, rightShoulder)
        THEN Result(FALSE, <<MsgBridgeGate>>)
        ELSE IF ~leftHip.present \/ ~rightHip.present
                \/ ~leftShoulder.present \/ ~rightShoulder.present
        THEN TypeError
        ELSE LET d2 == hipHeightDiff2(leftHip, rightHip, leftShoulder, rightShoulder)
                 leftKneeAngle == BridgeKneeAngle(leftHip, leftKnee, leftAnkle)
                 rightKneeAngle == BridgeKneeAngle(rightHip, rightKnee, rightAnkle)
                 kneesBent == Bent(leftKneeAngle) \/ Bent(rightKneeAngle)
             IN  IF d2 > 0
                 THEN Result(TRUE, <<MsgBridgeLifted>> \o BridgeBand(d2)
                        \o (IF kneesBent THEN <<MsgBridgeKneesOk>> ELSE <<MsgBridgeKneesWarn>>)
                        \o BridgeLevel(leftHip, rightHip)
                        \o <<"Squeeze your glutes and hold for 10 seconds. Keep your shoulders and head on the ground.">>)
                 ELSE Result(FALSE, <<MsgBridgeHigher>> \o BridgeStage(d2)
                        \o (IF ~kneesBent THEN <<MsgBridgeLying>> ELSE <<MsgBridgeSlowly>>)
                        \o <<"Press through your heels and engage your glutes. Your body should form a bridge shape.">>)

-----------------------------------------------------------------------------
(* validateAnklePumps (lines 428-459) *)

MsgAnkleGate == "[warn] Position your feet so your ankles are clearly visible in the camera. Sit or lie down with your legs extended or slightly bent."
MsgAnkleVisible == "[ok] Your ankles are visible. "

\* AnkleGate that also rejects a score of exactly 0.4.
AnkleGateStrict(leftAnkle, rightAnkle) ==
    \/ ~leftAnkle.present \/ ~rightAnkle.present
    \/ leftAnkle.score <= MinScore \/ rightAnkle.score <= MinScore

\* Line 434: the gate of the ankle pumps.
AnkleGate(leftAnkle, rightAnkle) ==
    \/ ~leftAnkle.present \/ ~rightAnkle.present
    \/ leftAnkle.score < MinScore \/ rightAnkle.score < MinScore

validateAnklePumps(p) ==
    LET leftAnkle == getKeypoint(p, "left_ankle")
        rightAnkle == getKeypoint(p, "right_ankle")
        leftVisible == leftAnkle.present /\ leftAnkle.score > MinScore
        rightVisible == rightAnkle.present /\ rightAnkle.score > MinScore
    IN  IF AnkleGate(leftAnkle, rightAnkle)
        THEN Result(FALSE, <<MsgAnkleGate>>)
        ELSE Result(TRUE, <<MsgAnkleVisible>>
               \o (IF leftVisible /\ rightVisible
                   THEN <<"Focus on one foot at a time or both together. ">>
                   ELSE IF leftVisible THEN <<"Work your left ankle. ">>
                   ELSE <<"Work your right ankle. ">>)
               \o <<"Point your toes away from your body (plantarflexion), then pull them toward your body (dorsiflexion). ",
                    "Move slowly and deliberately through the full range of motion. ",
                    "Aim for 15-20 repetitions per foot. ",
                    "This exercise improves circulation and ankle mobility.">>)

-----------------------------------------------------------------------------
(* validatePose (lines 106-127) *)

MsgSelectFirst == "Please select an exercise first"
MsgNotImplemented == "Exercise validation not implemented"

\* The switch of lines 113-126.
Dispatch(exerciseId, p) ==
    CASE exerciseId = 1 -> validateNeckRotation(p)
      [] exerciseId = 2 -> validateShoulderFlexion(p)
      [] exerciseId = 3 -> validateKneeExtension(p)
      [] exerciseId = 4 -> validateHipBridge(p)
      [] exerciseId = 5 -> validateAnklePumps(p)
      [] OTHER -> Result(FALSE, <<MsgNotImplemented>>)

\* validatePose reads the selector, a global: sel is its value at the call.
validatePose(sel, p) ==
    IF sel.isNull THEN Result(FALSE, <<MsgSelectFirst>>)
    ELSE Dispatch(sel.id, p)

-----------------------------------------------------------------------------
(* The poses the estimator is taken to return *)

\* Largest x of the nose in the neck-rotation poses.
MaxNoseX == 10
\* Largest coordinate of the points calculateAngle is tried on.
GridMax == 3
\* The count of started cycles saturates here.
MaxFrames == 3

\* A pose with no keypoint at all.
Hidden == [n \in JointNames |-> Undefined]

Opt(S) == {Undefined} \cup S

\* Shoulders 0, 5, 10 or 200 px apart, the nose anywhere between and beyond,
\* scores on both sides of 0.4, ears level or 10 and 11 px apart.
NeckPoses ==
    {[Hidden EXCEPT !["nose"] = n, !["left_shoulder"] = ls,
                    !["right_shoulder"] = rs, !["left_ear"] = le,
                    !["right_ear"] = re] :
        n \in Opt({Kp(s, x, 0) : s \in {39, 40}, x \in (0..MaxNoseX) \cup {190}}),
        ls \in Opt({Kp(s, x, 0) : s \in {39, 90}, x \in {0, 10}}),
        rs \in Opt({Kp(s, x, 0) : s \in {39, 90}, x \in {0, 5, 10, 200}}),
        le \in Opt({Kp(40, 0, 0)} \cup {Kp(41, 0, y) : y \in {0, 10, 11}}),
        re \in Opt({Kp(41, 0, 0)})}

\* Shoulders at y = 40; the left wrist from 40 px above to 10 px below; the left
\* elbow in line with the arm or out of it; the right arm up or down.
ShoulderPoses ==
    {[Hidden EXCEPT !["left_shoulder"] = ls, !["right_shoulder"] = rs,
                    !["left_elbow"] = le, !["left_wrist"] = lw,
                    !["right_elbow"] = re, !["right_wrist"] = rw] :
        ls \in Opt({Kp(s, 0, 40) : s \in {39, 40, 41}}),
        rs \in Opt({Kp(s, 20, 40) : s \in {39, 41}}),
        le \in Opt({Kp(s, x, 30) : s \in {40, 41}, x \in {0, 4}}),
        lw \in Opt({Kp(s, 0, y) : s \in {40, 41},
                                  y \in {0, 9, 10, 24, 25, 39, 40, 50}}),
        re \in Opt({Kp(41, 20, 30)}),
        rw \in Opt({Kp(41, 20, y) : y \in {20, 50}})}

\* Knees at (10, 10); hips level with the knees or above; the left ankle at
\* 180, 177, 169, 158, 90 and 0 degrees from the hip.
KneePoses ==
    {[Hidden EXCEPT !["left_hip"] = lh, !["right_hip"] = rh,
                    !["left_knee"] = lk, !["right_knee"] = rk,
                    !["left_ankle"] = la, !["right_ankle"] = ra] :
        lh \in Opt({Kp(40, 0, 10), Kp(41, 0, 10), Kp(41, 0, 9)}),
        rh \in Opt({Kp(41, 0, 10), Kp(41, 0, 11)}),
        lk \in Opt({Kp(40, 10, 10), Kp(41, 10, 10)}),
        rk \in Opt({Kp(41, 10, 10)}),
        la \in Opt({Kp(40, 20, 10)} \cup
                   {Kp(41, x, y) : <<x, y>> \in {<<20, 10>>, <<20, 11>>, <<20, 12>>,
                                                 <<20, 14>>, <<10, 20>>, <<0, 10>>}}),
        ra \in Opt({Kp(41, 20, 10), Kp(41, 10, 20)})}

\* Shoulders at y = 100; hips from 20 px above to 30 px below, level or
\* apart; knees at (10, 90), bent or not.
BridgePoses ==
    {[Hidden EXCEPT !["left_shoulder"] = ls, !["right_shoulder"] = rs,
                    !["left_hip"] = lh, !["right_hip"] = rh,
                    !["left_knee"] = lk, !["left_ankle"] = la,
                    !["right_knee"] = Kp(41, 10, 90), !["right_ankle"] = ra] :
        ls \in Opt({Kp(39, 0, 100), Kp(40, 0, 100)}),
        rs \in Opt({Kp(40, 0, 100)}),
        lh \in Opt({Kp(39, 0, 80)} \cup
                   {Kp(40, 0, y) : y \in {80, 85, 92, 100, 130}}),
        rh \in Opt({Kp(40, 0, y) : y \in {80, 85, 91, 92, 95, 96, 100, 101, 130}}),
        lk \in Opt({Kp(40, 10, 90), Kp(41, 10, 90)}),
        la \in Opt({Kp(41, 10, 100), Kp(41, 20, 90)}),
        ra \in Opt({Kp(41, 10, 100)})}

\* Ankles absent or scored 0.39, 0.4 and 0.41, at two heights.
AnklePoses ==
    {[Hidden EXCEPT !["left_ankle"] = la, !["right_ankle"] = ra] :
        la \in Opt({Kp(s, 0, y) : s \in {39, 40, 41}, y \in {0, 50}}),
        ra \in Opt({Kp(s, 10, y) : s \in {39, 40, 41}, y \in {0, 50}})}

PoseSpace == NeckPoses \cup ShoulderPoses \cup KneePoses \cup BridgePoses \cup AnklePoses

\* A whole body in view: the nose centred or turned, the left wrist up or down,
\* the hips above the shoulders or level with the knees.
Body(nx, wy, hy) ==
    [Hidden EXCEPT
        !["nose"] = Kp(90, nx, 90),
        !["left_ear"] = Kp(90, 4, 85), !["right_ear"] = Kp(90, 6, 85),
        !["left_shoulder"] = Kp(90, 0, 100), !["right_shoulder"] = Kp(90, 10, 100),
        !["left_elbow"] = Kp(90, 0, 90), !["left_wrist"] = Kp(90, 0, wy),
        !["left_hip"] = Kp(90, 0, hy), !["right_hip"] = Kp(90, 0, hy),
        !["left_knee"] = Kp(90, 10, 120), !["right_knee"] = Kp(90, 10, 120),
        !["left_ankle"] = Kp(90, 20, 120), !["right_ankle"] = Kp(90, 10, 130)]

\* The poses of the frame cycle's frames.
FramePoses ==
    {Hidden} \cup {Body(nx, wy, hy) : nx \in {5, 10}, wy \in {60, 110}, hy \in {80, 120}}

\* The selector values validatePose is tried on: null, the five exercises and
\* ids outside 1..5.
Selectors == {NoExercise} \cup EXERCISES \cup {Exercise(0), Exercise(6), Exercise(99)}

\* The points calculateAngle is tried on.
AnglePoints ==
    Opt({Kp(s, x, y) : s \in {39, 40}, x \in 0..GridMax, y \in 0..GridMax})

-----------------------------------------------------------------------------
(* The consultation records of the server (server.js, lines 45-52, 154-173) *)

MaxUsers == 4
MaxConsultations == 2

\* User 1 is a patient, the others are doctors (role, line 40).
Users == 1..MaxUsers
Role(u) == IF u = 1 THEN "patient" ELSE "doctor"

ConsultationIds == 1..MaxConsultations

\* doctorId before it is set (line 47 has no default).
NoDoctor == 0

\* A document of consultationSchema, and the place of one never created.
Consultation(status, doctorId) ==
    [exists |-> TRUE, status |-> status, doctorId |-> doctorId]
NoConsultation == [exists |-> FALSE, status |-> "", doctorId |-> NoDoctor]

\* A request: where its handler stands, the id it names, the document it
\* loaded, the HTTP status and the body of its response.
Request(at, consultationId, doc, status, body) ==
    [pc |-> at, consultationId |-> consultationId, consultation |-> doc,
     status |-> status, body |-> body]
NoRequest == Request("idle", 0, NoConsultation, 0, "")

ServerIdle ==
    /\ consultations = [c \in ConsultationIds |-> NoConsultation]
    /\ requests = [u \in Users |-> NoRequest]

-----------------------------------------------------------------------------
(* The validator applied to one pose: specification SpecValidate *)

Idle ==
    /\ feedbackText = <<>>
    /\ feedbackColor = ""
    /\ awaiting = 0
    /\ rafQueue = 0
    /\ frames = 0
    /\ rendered = [frame |-> 0, hasPose |-> FALSE, validated |-> FALSE,
                   sel |-> NoExercise, text |-> <<>>, color |-> ""]
    /\ memo = [set |-> FALSE, frame |-> 0, sel |-> NoExercise, pose |-> Hidden,
               result |-> NoResult]
    /\ ServerIdle

InitValidate ==
    /\ pc = "input"
    /\ selectedExercise \in Selectors
    /\ pose \in PoseSpace
    /\ validation = NoResult
    /\ angleArgs = <<Undefined, Undefined, Undefined>>
    /\ angleResult = NullAngle
    /\ Idle

\* One call validatePose(pose).
Validate ==
    /\ pc = "input"
    /\ pc' = "validated"
    /\ validation' = validatePose(selectedExercise, pose)
    /\ UNCHANGED <<selectedExercise, pose, feedbackText, feedbackColor, awaiting,
                   rafQueue, frames, rendered, memo, angleArgs, angleResult,
                   consultations, requests>>

SpecValidate == InitValidate /\ [][Validate]_vars

-----------------------------------------------------------------------------
(* calculateAngle applied to three points: specification SpecAngle *)

InitAngle ==
    /\ pc = "angleInput"
    /\ angleArgs \in AnglePoints \X AnglePoints \X AnglePoints
    /\ angleResult = NullAngle
    /\ selectedExercise = NoExercise
    /\ pose = Hidden
    /\ validation = NoResult
    /\ Idle

\* One call calculateAngle(point1, point2, point3).
CallAngle ==
    /\ pc = "angleInput"
    /\ pc' = "angleDone"
    /\ angleResult' = calculateAngle(angleArgs[1], angleArgs[2], angleArgs[3])
    /\ UNCHANGED <<selectedExercise, pose, validation, feedbackText, feedbackColor,
                   awaiting, rafQueue, frames, rendered, memo, angleArgs,
                   consultations, requests>>

SpecAngle == InitAngle /\ [][CallAngle]_vars

-----------------------------------------------------------------------------
(* The frame cycle: specification Spec *)

MsgAnalyzing == "Perform the exercise. AI is analyzing..."
MsgPleaseSelect == "Please select an exercise"
MsgNoPose == "No pose detected. Please position yourself in front of the camera"
Affirmative == "#4ade80"
Corrective == "#f87171"
Neutral == "#fbbf24"

Min(a, b) == IF a < b THEN a ELSE b

Init ==
    /\ pc = "init"
    /\ selectedExercise = NoExercise
    /\ pose = Hidden
    /\ validation = NoResult
    /\ angleArgs = <<Undefined, Undefined, Undefined>>
    /\ angleResult = NullAngle
    /\ Idle

\* loadExercise(ex), the click handler of an exercise button (lines 53, 57-62).
loadExercise(ex) ==
    /\ pc \in {"init", "running"}
    /\ selectedExercise' = ex
    /\ feedbackText' = <<MsgAnalyzing>>
    /\ UNCHANGED <<pc, pose, validation, feedbackColor, awaiting, rafQueue, frames,
                   rendered, memo, angleArgs, angleResult,
                   consultations, requests>>

\* detectPose up to its await (lines 462-463): the estimator is called and the
\* invocation is suspended.
detectPoseCall ==
    /\ awaiting' = awaiting + 1
    /\ frames' = Min(frames + 1, MaxFrames)

\* init() after camera and model are ready (lines 502-506): the first cycle.
init ==
    /\ pc = "init"
    /\ pc' = "running"
    /\ detectPoseCall
    /\ UNCHANGED <<selectedExercise, pose, validation, feedbackText, feedbackColor,
                   rafQueue, rendered, memo, angleArgs, angleResult,
                   consultations, requests>>

\* The display refresh runs a callback queued by requestAnimationFrame.
animationFrame ==
    /\ pc = "running"
    /\ rafQueue > 0
    /\ rafQueue' = rafQueue - 1
    /\ detectPoseCall
    /\ UNCHANGED <<pc, selectedExercise, pose, validation, feedbackText,
                   feedbackColor, rendered, memo, angleArgs, angleResult,
                   consultations, requests>>

\* Validated that keeps the verdict of the previous frame once there is one.
ValidatedStale(p) ==
    IF validation # NoResult THEN validation ELSE validatePose(selectedExercise, p)

\* Validated that dispatches on the selection the previous cycle saw.
ValidatedPrevious(p) == validatePose(rendered.sel, p)

\* What line 470 gets from validatePose(poses[0]) in the state it is called in.
Validated(p) == validatePose(selectedExercise, p)

\* Lines 466 and 469: whether the cycle calls the validator.
Validates(poses) == Len(poses) > 0 /\ ~selectedExercise.isNull

\* Lines 471, 474 and 478: the text written to the feedback element.
FeedbackText(poses, v) ==
    IF Len(poses) > 0
    THEN IF ~selectedExercise.isNull THEN v.message ELSE <<MsgPleaseSelect>>
    ELSE <<MsgNoPose>>

\* FeedbackColor with the neutral colour for a frame without a pose.
FeedbackColorNeutralNoPose(poses, v) ==
    IF Len(poses) > 0
    THEN IF ~selectedExercise.isNull
         THEN IF v.isValid THEN Affirmative ELSE Corrective
         ELSE Neutral
    ELSE Neutral

\* Lines 472, 475 and 479: the colour written to the feedback element.
FeedbackColor(poses, v) ==
    IF Len(poses) > 0
    THEN IF ~selectedExercise.isNull
         THEN IF v.isValid THEN Affirmative ELSE Corrective
         ELSE Neutral
    ELSE Corrective

\* Rescheduled with a second requestAnimationFrame in the cycle.
RescheduledTwice == 1 + 1

\* Rescheduled without the requestAnimationFrame that ends the cycle.
RescheduledNever == 1 - 1

\* Line 482: the callbacks requestAnimationFrame queues at the end of a cycle.
Rescheduled == 1

\* detectPose from the estimator's answer to its end (lines 463-483), one
\* uninterrupted run: draw, validate, write the feedback, queue the successor.
detectPoseResume(poses) ==
    /\ pc = "running"
    /\ awaiting > 0
    /\ awaiting' = awaiting - 1
    /\ pose' = IF Len(poses) > 0 THEN poses[1] ELSE Hidden
    /\ validation' = IF Validates(poses) THEN Validated(poses[1]) ELSE NoResult
    /\ feedbackText' = FeedbackText(poses, validation')
    /\ feedbackColor' = FeedbackColor(poses, validation')
    /\ rendered' = [frame |-> frames, hasPose |-> Len(poses) > 0,
                    validated |-> Validates(poses), sel |-> selectedExercise,
                    text |-> feedbackText', color |-> feedbackColor']
    /\ memo' \in IF Validates(poses) /\ ~memo.set
                 THEN {memo, [set |-> TRUE, frame |-> frames,
                              sel |-> selectedExercise, pose |-> pose',
                              result |-> validation']}
                 ELSE {memo}
    /\ rafQueue' = rafQueue + Rescheduled
    /\ UNCHANGED <<pc, selectedExercise, frames, angleArgs, angleResult,
                   consultations, requests>>

\* The estimator's promise rejects: the await throws and the invocation ends
\* without queuing a successor.
detectPoseReject ==
    /\ pc = "running"
    /\ awaiting > 0
    /\ awaiting' = awaiting - 1
    /\ UNCHANGED <<pc, selectedExercise, pose, validation, feedbackText,
                   feedbackColor, rafQueue, frames, rendered, memo, angleArgs,
                   angleResult, consultations, requests>>

Next ==
    \/ \E ex \in EXERCISES : loadExercise(ex)
    \/ init
    \/ animationFrame
    \/ \E poses \in {<<>>} \cup {<<p>> : p \in FramePoses} : detectPoseResume(poses)
    \/ detectPoseReject

Spec == Init /\ [][Next]_vars

\* The frame cycle with an estimator that answers every call.
NextLive ==
    \/ \E ex \in EXERCISES : loadExercise(ex)
    \/ init
    \/ animationFrame
    \/ \E poses \in {<<>>} \cup {<<p>> : p \in FramePoses} : detectPoseResume(poses)

\* The script calls init() when it is loaded (line 508), the browser runs a
\* queued animation-frame callback, and the awaited estimator call of line 463
\* returns.
Fairness ==
    /\ WF_vars(init)
    /\ WF_vars(animationFrame)
    /\ WF_vars(\E poses \in {<<>>} \cup {<<p>> : p \in FramePoses} : detectPoseResume(poses))

\* Init with the remembered call already closed: no cycle records itself, the
\* progress of the cycle does not depend on the record.
InitLive ==
    /\ pc = "init"
    /\ selectedExercise = NoExercise
    /\ pose = Hidden
    /\ validation = NoResult
    /\ angleArgs = <<Undefined, Undefined, Undefined>>
    /\ angleResult = NullAngle
    /\ feedbackText = <<>>
    /\ feedbackColor = ""
    /\ awaiting = 0
    /\ rafQueue = 0
    /\ frames = 0
    /\ rendered = [frame |-> 0, hasPose |-> FALSE, validated |-> FALSE,
                   sel |-> NoExercise, text |-> <<>>, color |-> ""]
    /\ memo = [set |-> TRUE, frame |-> 0, sel |-> NoExercise, pose |-> Hidden,
               result |-> NoResult]
    /\ ServerIdle

SpecLive == InitLive /\ [][NextLive]_vars /\ Fairness

-----------------------------------------------------------------------------
(* Requesting and accepting a consultation: specification SpecAccept *)

frontend ==
    <<selectedExercise, pc, pose, validation, feedbackText, feedbackColor,
      awaiting, rafQueue, frames, rendered, memo, angleArgs, angleResult>>

InitAccept ==
    /\ pc = "server"
    /\ selectedExercise = NoExercise
    /\ pose = Hidden
    /\ validation = NoResult
    /\ angleArgs = <<Undefined, Undefined, Undefined>>
    /\ angleResult = NullAngle
    /\ Idle

\* POST /api/consultations/request by a patient (lines 132-146): a new
\* document, status 'waiting' by default, no doctorId.
requestConsultation(u) ==
    /\ pc = "server"
    /\ Role(u) = "patient"
    /\ \E c \in ConsultationIds :
          /\ ~consultations[c].exists
          /\ \A b \in ConsultationIds : b < c => consultations[b].exists
          /\ consultations' = [consultations EXCEPT ![c] = Consultation("waiting", NoDoctor)]
    /\ UNCHANGED <<frontend, requests>>

\* POST /api/consultations/accept up to its first await (lines 154-158): the
\* role check, then findById is called.
acceptCall(u, c) ==
    /\ pc = "server"
    /\ requests[u].pc = "idle"
    /\ requests' = [requests EXCEPT ![u] =
          IF Role(u) # "doctor"
          THEN Request("done", c, NoConsultation, 403, "Doctors only")
          ELSE Request("finding", c, NoConsultation, 0, "")]
    /\ UNCHANGED <<frontend, consultations>>

\* findById answers with the document as the database has it; the handler
\* runs from line 158 to the save it awaits at line 163.
acceptFound(u) ==
    /\ pc = "server"
    /\ requests[u].pc = "finding"
    /\ LET c == requests[u].consultationId
           consultation == consultations[c]
       IN  requests' = [requests EXCEPT ![u] =
             IF ~consultation.exists
             THEN Request("done", c, consultation, 404, "Consultation not found")
             ELSE IF consultation.status # "waiting"
             THEN Request("done", c, consultation, 400, "Consultation not available")
             ELSE Request("saving", c, Consultation("active", u), 0, "")]
    /\ UNCHANGED <<frontend, consultations>>

\* save() writes the fields the handler changed, status and doctorId, to the
\* document of that id, and the handler answers (lines 163-169).
acceptSaved(u) ==
    /\ pc = "server"
    /\ requests[u].pc = "saving"
    /\ LET c == requests[u].consultationId
           consultation == requests[u].consultation
       IN  /\ consultations' = [consultations EXCEPT
                 ![c].status = consultation.status,
                 ![c].doctorId = consultation.doctorId]
           /\ requests' = [requests EXCEPT ![u] =
                 Request("done", c, consultation, 200, consultation.status)]
    /\ UNCHANGED frontend

\* An awaited database call rejects: the catch of lines 170-172 answers.
acceptFailed(u) ==
    /\ pc = "server"
    /\ requests[u].pc \in {"finding", "saving"}
    /\ requests' = [requests EXCEPT ![u] =
          Request("done", requests[u].consultationId, requests[u].consultation,
                  500, "Unable to accept consultation")]
    /\ UNCHANGED <<frontend, consultations>>

NextAccept ==
    \/ \E u \in Users : requestConsultation(u)
    \/ \E u \in Users, c \in ConsultationIds : acceptCall(u, c)
    \/ \E u \in Users : acceptFound(u)
    \/ \E u \in Users : acceptSaved(u)
    \/ \E u \in Users : acceptFailed(u)

SpecAccept == InitAccept /\ [][NextAccept]_vars

-----------------------------------------------------------------------------
(* Properties of the validators, under SpecValidate *)

\* A joint that is usable in the sense of the specification: present, with a
\* score of at least 0.4.
Usable(kp) == kp.present /\ kp.score >= MinScore

Contains(m, piece) == \E i \in 1..Len(m) : m[i] = piece

\* The call validatePose(pose) has returned for exercise id.
Judged(id) == pc = "validated" /\ ~selectedExercise.isNull /\ selectedExercise.id = id

\* The joints the specification requires for an exercise.
RequiredJoints(id) ==
    CASE id = 1 -> {"nose", "left_shoulder", "right_shoulder"}
      [] id = 2 -> {"left_shoulder", "right_shoulder"}
      [] id = 3 -> {"left_hip", "right_hip", "left_knee", "right_knee"}
      [] id = 4 -> {"left_hip", "right_hip", "left_shoulder", "right_shoulder"}
      [] id = 5 -> {"left_ankle", "right_ankle"}

RepositionMessage(id) ==
    CASE id = 1 -> MsgNeckGate
      [] id = 2 -> MsgShoulderGate
      [] id = 3 -> MsgKneeGate
      [] id = 4 -> MsgBridgeGate
      [] id = 5 -> MsgAnkleGate

\* C1: for each exercise 1..5, a pose in which a required joint is absent or
\* scored below 0.4 gets isValid = false with that exercise's repositioning
\* message, and nothing else.
C1_ConfidenceGate ==
    \A id \in 1..5 :
        (Judged(id) /\ \E j \in RequiredJoints(id) : ~Usable(pose[j]))
            => validation = Result(FALSE, <<RepositionMessage(id)>>)

\* C2: validatePose returns, without raising, a result whose isValid is a boolean
\* and whose message is a non-empty string; for an id outside 1..5 the result is
\* {isValid: false, message: "Exercise validation not implemented"}.
C2_Total ==
    pc = "validated" =>
        /\ ~validation.threw
        /\ validation.isValid \in BOOLEAN
        /\ \E i \in 1..Len(validation.message) : validation.message[i] # ""
        /\ (~selectedExercise.isNull /\ selectedExercise.id \notin 1..5)
               => validation = Result(FALSE, <<MsgNotImplemented>>)

\* C2's case: an id outside 1..5 judged on a pose with keypoints.
C2_Witness ==
    /\ pc = "validated"
    /\ ~selectedExercise.isNull /\ selectedExercise.id = 99
    /\ pose["left_hip"].present /\ ~pose["left_knee"].present
    /\ validation = Result(FALSE, <<MsgNotImplemented>>)

\* rotation% > t and rotation% <= t, from the coordinates: rotation% is
\* |noseX - shoulderMidX| / shoulderWidth * 100, which is Infinity when the
\* shoulders coincide and the nose is off them, and NaN when all three coincide.
C3_Off2 == Abs(2 * pose["nose"].x - pose["left_shoulder"].x - pose["right_shoulder"].x)
C3_Width == Abs(pose["left_shoulder"].x - pose["right_shoulder"].x)
C3_Gt(t) == IF C3_Width = 0 THEN C3_Off2 > 0 ELSE 100 * C3_Off2 > t * 2 * C3_Width
C3_Le(t) == C3_Width # 0 /\ 100 * C3_Off2 <= t * 2 * C3_Width

\* C3: past the gate of the neck rotation, isValid iff rotation% > 20; the
\* message is the excellent band above 40, the good band in (30, 40], the
\* nice-start band in (20, 30], the directed invalid prompt in (10, 20] and the
\* generic invalid prompt at 10 or below.
C3_NeckLadder ==
    (Judged(1) /\ ~NeckGate(pose["nose"], pose["left_shoulder"], pose["right_shoulder"]))
    => LET m == validation.message
       IN  /\ ~validation.threw
           /\ validation.isValid <=> C3_Gt(20)
           /\ C3_Gt(40) => m[2] = MsgNeckExcellent
           /\ (C3_Gt(30) /\ C3_Le(40)) => m[2] = MsgNeckGood
           /\ (C3_Gt(20) /\ C3_Le(30)) => m[2] = MsgNeckStart
           /\ (C3_Gt(10) /\ C3_Le(20)) =>
                  /\ m[1] = MsgNeckMore
                  /\ m[2] \in {"left", "right"}
           /\ C3_Le(10) => m = <<MsgNeckGeneric>>

\* C3's case: shoulders 200 px apart, the nose 90 px off their midpoint:
\* rotation% = 45, valid, excellent.
C3_Witness ==
    /\ Judged(1)
    /\ pose["left_shoulder"].present /\ pose["left_shoulder"].x = 0
    /\ pose["right_shoulder"].present /\ pose["right_shoulder"].x = 200
    /\ pose["nose"].present /\ pose["nose"].x = 190
    /\ validation.isValid
    /\ Contains(validation.message, MsgNeckExcellent)

\* An arm is raised, as C4 has it: the wrist usable and above the shoulder.
C4_Raised(side) ==
    /\ Usable(pose[side \o "_wrist"])
    /\ pose[side \o "_wrist"].y < pose[side \o "_shoulder"].y

C4_HeightDiff(side) == pose[side \o "_shoulder"].y - pose[side \o "_wrist"].y

\* C4: past the gate of the shoulder flexion, isValid iff an arm is raised,
\* whatever its elbow; when valid the band is that of a raised arm's
\* heightDiff: above 30 excellent, above 15 good, otherwise slightly raised.
C4_ShoulderVerdict ==
    (Judged(2) /\ ~ShoulderGate(pose["left_shoulder"], pose["right_shoulder"]))
    => /\ validation.isValid <=> (C4_Raised("left") \/ C4_Raised("right"))
       /\ validation.isValid =>
            \E side \in {"left", "right"} :
                /\ C4_Raised(side)
                /\ validation.message[3] = side
                /\ LET h == C4_HeightDiff(side)
                   IN  IF h > 30 THEN validation.message[2] = MsgArmExcellent
                       ELSE IF h > 15 THEN validation.message[2] = MsgArmGood
                       ELSE validation.message[4] = MsgArmSlight

\* A leg is extended, as C5 has it: hip, knee and ankle usable and the angle at
\* the knee strictly between 160 and 200 degrees.
C5_Angle(side) ==
    calculateAngle(pose[side \o "_hip"], pose[side \o "_knee"], pose[side \o "_ankle"])

C5_Extended(side) ==
    /\ Usable(pose[side \o "_hip"])
    /\ Usable(pose[side \o "_knee"])
    /\ Usable(pose[side \o "_ankle"])
    /\ C5_Angle(side).mdeg > 160000 /\ C5_Angle(side).mdeg < 200000

\* C5: past the gate of the knee extension, isValid iff a leg is extended; when
\* valid, the message has "Excellent straight leg" iff the angle of the leg
\* reported as extended is within 175-185, and otherwise "straighten it a bit
\* more".
C5_KneeVerdict ==
    (Judged(3) /\ ~KneeGate(pose["left_hip"], pose["right_hip"],
                            pose["left_knee"], pose["right_knee"]))
    => /\ validation.isValid <=> (C5_Extended("left") \/ C5_Extended("right"))
       /\ validation.isValid =>
            LET a == C5_Angle(validation.message[2]).mdeg
            IN  IF a > 175000 /\ a < 185000
                THEN Contains(validation.message, MsgKneeExcellent)
                     /\ ~Contains(validation.message, MsgKneeBitMore)
                ELSE Contains(validation.message, MsgKneeBitMore)
                     /\ ~Contains(validation.message, MsgKneeExcellent)

C6_Hips2 == pose["left_hip"].y + pose["right_hip"].y
C6_Shoulders2 == pose["left_shoulder"].y + pose["right_shoulder"].y

\* C6: past the gate of the hip bridge, isValid iff avgHipY < avgShoulderY,
\* whatever the knees and ankles; when valid the band is that of
\* hipHeightDiff = avgShoulderY - avgHipY (above 15 excellent, above 8 good,
\* otherwise aim higher) and the keep-your-hips-level warning is there iff the
\* hips are more than 15 px apart in height.
C6_BridgeVerdict ==
    (Judged(4) /\ ~BridgeGate(pose["left_hip"], pose["right_hip"],
                              pose["left_shoulder"], pose["right_shoulder"]))
    => LET m == validation.message
           d2 == C6_Shoulders2 - C6_Hips2
       IN  /\ ~validation.threw
           /\ validation.isValid <=> C6_Hips2 < C6_Shoulders2
           /\ validation.isValid =>
                /\ m[2] = (IF d2 > 30 THEN MsgBridgeExcellent
                           ELSE IF d2 > 16 THEN MsgBridgeGood
                           ELSE MsgBridgeAim)
                /\ Contains(m, MsgBridgeLevel)
                     <=> Abs(pose["left_hip"].y - pose["right_hip"].y) > 15

\* C6's case: shoulders at 100, hips at 80, a bent knee: valid, excellent, no
\* warning about the hips' level.
C6_Witness ==
    /\ Judged(4)
    /\ pose["left_shoulder"].present /\ pose["right_shoulder"].present
    /\ pose["left_hip"].present /\ pose["right_hip"].present
    /\ C6_Shoulders2 = 200 /\ C6_Hips2 = 160
    /\ Bent(BridgeKneeAngle(pose["left_hip"], pose["left_knee"], pose["left_ankle"]))
    /\ validation.isValid
    /\ validation.message[2] = MsgBridgeExcellent
    /\ ~Contains(validation.message, MsgBridgeLevel)

\* C7: in the ankle pumps isValid iff both ankles are present with a score of
\* at least 0.4, whatever the coordinates and the other joints.
C7_AnkleVerdict ==
    Judged(5) =>
        /\ ~validation.threw
        /\ validation.isValid <=> (Usable(pose["left_ankle"]) /\ Usable(pose["right_ankle"]))

\* C7's case: both ankles scored exactly 0.4, at different heights: valid.
C7_Witness ==
    /\ Judged(5)
    /\ pose["left_ankle"].present /\ pose["left_ankle"].score = MinScore
    /\ pose["right_ankle"].present /\ pose["right_ankle"].score = MinScore
    /\ pose["left_ankle"].y # pose["right_ankle"].y
    /\ validation.isValid

-----------------------------------------------------------------------------
(* Properties of calculateAngle, under SpecAngle *)

\* The difference of the two rays' directions, in thousandths of a degree.
C8_D ==
    Atan2Milli(angleArgs[3].y - angleArgs[2].y, angleArgs[3].x - angleArgs[2].x)
    - Atan2Milli(angleArgs[1].y - angleArgs[2].y, angleArgs[1].x - angleArgs[2].x)

\* C8: calculateAngle returns null when a point is absent or scored below 0.4;
\* otherwise |d|, or 360 - |d| when |d| > 180, which lies in [0, 180].
C8_Angle ==
    pc = "angleDone" =>
        IF \E i \in 1..3 : ~Usable(angleArgs[i])
        THEN angleResult.isNull
        ELSE /\ ~angleResult.isNull
             /\ angleResult.mdeg = (IF Abs(C8_D) > 180000 THEN 360000 - Abs(C8_D)
                                    ELSE Abs(C8_D))
             /\ angleResult.mdeg >= 0
             /\ angleResult.mdeg <= 180000

\* C8's case: three usable points whose rays' directions differ by more than
\* 180 degrees, the result reflected.
C8_Witness ==
    /\ pc = "angleDone"
    /\ \A i \in 1..3 : Usable(angleArgs[i])
    /\ Abs(C8_D) = 270000
    /\ angleResult = Angle(90000)

-----------------------------------------------------------------------------
(* Properties of the frame cycle, under Spec *)

\* The cycle that has just rendered called the validator on the pose and
\* selector of the remembered call.
C9_SameCall ==
    /\ memo.set
    /\ rendered.validated
    /\ rendered.sel = memo.sel
    /\ pose = memo.pose

\* C9: the result of a frame depends on that frame's pose and the active
\* exercise only: a call with the pose and exercise of any earlier call returns
\* that call's result, whatever happened in between; and the step that calls
\* the validator leaves the selector as it was.
C9_HistoryIndependent ==
    /\ [](C9_SameCall => validation = memo.result)
    /\ [][(awaiting' < awaiting /\ rendered'.validated)
              => selectedExercise' = selectedExercise]_vars

\* C9's case: a later cycle validates the pose and exercise of an earlier one
\* and gets the same valid verdict.
C9_Witness ==
    /\ C9_SameCall
    /\ memo.frame < rendered.frame
    /\ validation = memo.result
    /\ validation.isValid

\* C10: at most one detectPose cycle is in flight or scheduled; a successor is
\* scheduled only by the step that ends the one pending estimator call and
\* writes the feedback text and colour of the current frame.
C10_NoOverlap ==
    /\ [](awaiting + rafQueue <= 1)
    /\ [][rafQueue' > rafQueue =>
            /\ awaiting = 1 /\ awaiting' = 0
            /\ rafQueue' = 1
            /\ rendered'.frame = frames
            /\ feedbackText' = rendered'.text
            /\ feedbackColor' = rendered'.color]_vars

\* C10's case: a third cycle is scheduled after the second one rendered a
\* verdict.
C10_Witness ==
    /\ rafQueue = 1 /\ awaiting = 0
    /\ frames = 2 /\ rendered.frame = 2
    /\ rendered.validated
    /\ feedbackText = validation.message

\* The prompts the cycle writes on its own, without a validator.
C11_OwnPrompts == {<<MsgPleaseSelect>>, <<MsgNoPose>>}

\* C11 as the specification has it: the colour the last cycle wrote is the
\* affirmative one iff a validator returned isValid = true, the corrective one
\* iff a validator returned isValid = false, and the neutral one when no
\* exercise was selected or no pose was detected; in these two cases the cycle
\* wrote a prompt of its own and called no validator.
C11_ColourByVerdict ==
    rendered.frame > 0 =>
        /\ feedbackColor = Affirmative <=> (rendered.validated /\ validation.isValid)
        /\ feedbackColor = Corrective <=> (rendered.validated /\ ~validation.isValid)
        /\ (rendered.sel.isNull \/ ~rendered.hasPose) =>
                /\ feedbackColor = Neutral
                /\ rendered.text \in C11_OwnPrompts
                /\ validation = NoResult

\* C11 as the code has it: the colour the last cycle wrote is the affirmative
\* one iff a validator returned isValid = true; the corrective one iff a
\* validator returned isValid = false or no pose was detected; the neutral one
\* iff a pose was detected and no exercise is selected. Without a pose, or
\* without a selection, the cycle wrote the matching prompt of its own and
\* called no validator; otherwise it wrote the validator's message.
C11_ColourByOutcome ==
    rendered.frame > 0 =>
        /\ feedbackColor = Affirmative <=> (rendered.validated /\ validation.isValid)
        /\ feedbackColor = Corrective
              <=> ((rendered.validated /\ ~validation.isValid) \/ ~rendered.hasPose)
        /\ feedbackColor = Neutral <=> (rendered.hasPose /\ rendered.sel.isNull)
        /\ ~rendered.hasPose =>
                rendered.text = <<MsgNoPose>> /\ validation = NoResult
        /\ (rendered.hasPose /\ rendered.sel.isNull) =>
                rendered.text = <<MsgPleaseSelect>> /\ validation = NoResult
        /\ rendered.validated <=> (rendered.hasPose /\ ~rendered.sel.isNull)
        /\ rendered.validated =>
                validation # NoResult /\ rendered.text = validation.message

\* C11's case: with an exercise selected, a cycle whose estimator found no
\* pose wrote the no-pose prompt in the corrective colour, no validator called.
C11_Witness ==
    /\ rendered.frame > 0
    /\ ~rendered.hasPose
    /\ ~rendered.sel.isNull
    /\ rendered.text = <<MsgNoPose>>
    /\ feedbackColor = Corrective
    /\ validation = NoResult

-----------------------------------------------------------------------------
(* Progress of the frame cycle, under SpecLive *)

-----------------------------------------------------------------------------
(* Secondary checks and invalid-branch messages, under SpecValidate *)

\* The conditions of the three secondary checks on the judged pose.
C13_EarsTilted ==
    /\ pose["left_ear"].present /\ pose["left_ear"].score > MinScore
    /\ pose["right_ear"].present /\ pose["right_ear"].score > MinScore
    /\ Abs(pose["left_ear"].y - pose["right_ear"].y) > 10

C13_HipsUneven == Abs(pose["left_hip"].y - pose["right_hip"].y) > 15

C13_ElbowAngle(side) ==
    calculateAngle(pose[side \o "_shoulder"], pose[side \o "_elbow"],
                   pose[side \o "_wrist"])

C13_ElbowBent(side) ==
    ~C13_ElbowAngle(side).isNull /\ C13_ElbowAngle(side).mdeg < 150000

C13_PastNeckGate ==
    Judged(1) /\ ~NeckGate(pose["nose"], pose["left_shoulder"], pose["right_shoulder"])

C13_PastShoulderGate ==
    Judged(2) /\ ~ShoulderGate(pose["left_shoulder"], pose["right_shoulder"])

C13_PastBridgeGate ==
    Judged(4) /\ ~BridgeGate(pose["left_hip"], pose["right_hip"],
                             pose["left_shoulder"], pose["right_shoulder"])

\* The verdict of the judged exercise on another pose.
C13_VerdictOn(q) == validatePose(selectedExercise, q).isValid

\* The verdict does not change when the ears are replaced, when the left elbow
\* is moved sideways, or when one hip goes up as much as the other goes down.
C13_VerdictKept ==
    /\ C13_PastNeckGate =>
          \A le \in Opt({Kp(s, 0, y) : s \in {40, 41}, y \in {0, 10, 11}}),
             re \in Opt({Kp(41, 0, 0)}) :
              C13_VerdictOn([pose EXCEPT !["left_ear"] = le, !["right_ear"] = re])
                  = validation.isValid
    /\ (C13_PastShoulderGate /\ pose["left_elbow"].present) =>
          \A x \in {0, 4, 8} :
              C13_VerdictOn([pose EXCEPT !["left_elbow"].x = x]) = validation.isValid
    /\ C13_PastBridgeGate =>
          \A d \in -8..8 :
              C13_VerdictOn([pose EXCEPT !["left_hip"].y = @ + d,
                                         !["right_hip"].y = @ - d])
                  = validation.isValid

\* C13 as the specification has it: past the gate, valid or invalid, the
\* head-level warning is in the message iff both ears score above 0.4 and are
\* more than 10 px apart in height, the keep-your-hips-level warning iff the
\* hips are more than 15 px apart, the straighten-your-elbow warning iff an
\* elbow angle is below 150; and the warnings do not change isValid.
C13_WarningsAlways ==
    /\ C13_PastNeckGate =>
          (Contains(validation.message, MsgNeckTilt) <=> C13_EarsTilted)
    /\ C13_PastBridgeGate =>
          (Contains(validation.message, MsgBridgeLevel) <=> C13_HipsUneven)
    /\ C13_PastShoulderGate =>
          (Contains(validation.message, MsgArmElbow)
              <=> (C13_ElbowBent("left") \/ C13_ElbowBent("right")))
    /\ C13_VerdictKept

\* C13 as the code has it: past the gate, a warning of a secondary check is in
\* the message iff the verdict is valid and the check's condition holds: ears
\* both scored above 0.4 and more than 10 px apart; hips more than 15 px apart;
\* the elbow angle of the arm the message reports below 150 and not 0. An
\* invalid result has none of the three warnings, and the data of a secondary
\* check never changes isValid.
C13_WarningsWhenValid ==
    /\ C13_PastNeckGate =>
          (Contains(validation.message, MsgNeckTilt)
              <=> (validation.isValid /\ C13_EarsTilted))
    /\ C13_PastBridgeGate =>
          (Contains(validation.message, MsgBridgeLevel)
              <=> (validation.isValid /\ C13_HipsUneven))
    /\ C13_PastShoulderGate =>
          (Contains(validation.message, MsgArmElbow)
              <=> /\ validation.isValid
                  /\ C13_ElbowBent(validation.message[3])
                  /\ C13_ElbowAngle(validation.message[3]).mdeg # 0)
    /\ C13_VerdictKept

\* C13's case: past the gate of the neck rotation the head is not turned and
\* the ears are 11 px apart in height: invalid, and no head-level warning.
C13_Witness ==
    /\ C13_PastNeckGate
    /\ ~validation.threw
    /\ C13_EarsTilted
    /\ ~validation.isValid
    /\ ~Contains(validation.message, MsgNeckTilt)

\* The stage phrases of the two invalid branches.
C14_BridgePhrases == {MsgBridgeStart, MsgBridgeBitMore, MsgBridgeNeed}
C14_KneePhrases == {MsgKneeStraighten, MsgKneeOverextended}

C14_Present(phrases) == {ph \in phrases : Contains(validation.message, ph)}

C14_InvalidBridge == C13_PastBridgeGate /\ ~validation.threw /\ ~validation.isValid

C14_InvalidKnee ==
    /\ Judged(3)
    /\ ~KneeGate(pose["left_hip"], pose["right_hip"],
                 pose["left_knee"], pose["right_knee"])
    /\ ~validation.threw
    /\ ~validation.isValid

\* 2 * hipHeightDiff of the judged pose.
C14_D2 == C6_Shoulders2 - C6_Hips2

\* The knee angles as the validator measures them, and the one it reports:
\* the left one unless it is null or 0.
C14_Left == LegAngle(pose["left_hip"], pose["left_knee"], pose["left_ankle"])
C14_Right == LegAngle(pose["right_hip"], pose["right_knee"], pose["right_ankle"])
C14_Measured == ~C14_Left.isNull \/ ~C14_Right.isNull
C14_Reported == IF Truthy(C14_Left) THEN C14_Left ELSE C14_Right
C14_Side == IF Truthy(C14_Left) THEN "left" ELSE "right"
C14_Flexion == (180000 - Num(C14_Reported) + 500) \div 1000

\* C14 as the specification has it: an invalid result past the gate of the
\* knee extension or of the hip bridge has exactly one stage phrase, the first
\* whose condition matches (hip bridge: starting position, a bit more, higher
\* than the shoulders; knee: straighten with flexion = round(180 - angle),
\* overextended), followed by the posture or knee warning.
C14_FirstMatchWins ==
    /\ C14_InvalidBridge =>
          /\ Cardinality(C14_Present(C14_BridgePhrases)) = 1
          /\ Abs(C14_D2) < 2 * 30 => Contains(validation.message, MsgBridgeStart)
    /\ C14_InvalidKnee =>
          /\ Cardinality(C14_Present(C14_KneePhrases)) = 1
          /\ Contains(validation.message, MsgKneeStraighten) =>
                validation.message[4] = ToString(C14_Flexion)

\* C14 as the code has it. Hip bridge, invalid: after "Lift your hips higher"
\* comes the starting-position phrase iff the hips are less than 30 px from
\* the shoulders' height, then always exactly one of "need to be higher than
\* your shoulders" (hips below the shoulders) and "Lift just a bit more" (hips
\* level with them), then the knee warning. Knee extension, invalid: at most
\* one stage phrase; "Straighten your <side> knee more" with flexion =
\* round(180 - angle) iff a leg was measured and the reported angle is below
\* 160, first in the message; "overextended" iff a leg was measured and the
\* reported angle is above 200; the leaning warning follows iff a leg was
\* measured and the hips are not above the knees.
C14_StagePhrases ==
    /\ C14_InvalidBridge =>
          LET m == validation.message
              head == <<MsgBridgeHigher>>
                      \o (IF Abs(C14_D2) < 2 * 30 THEN <<MsgBridgeStart>> ELSE <<>>)
                      \o (IF C14_D2 < 0 THEN <<MsgBridgeNeed>> ELSE <<MsgBridgeBitMore>>)
          IN  /\ Len(m) = Len(head) + 2
              /\ SubSeq(m, 1, Len(head)) = head
              /\ m[Len(head) + 1] \in {MsgBridgeLying, MsgBridgeSlowly}
              /\ C14_Present(C14_BridgePhrases) \ {MsgBridgeStart}
                    \in {{MsgBridgeNeed}, {MsgBridgeBitMore}}
    /\ C14_InvalidKnee =>
          LET m == validation.message
          IN  /\ Cardinality(C14_Present(C14_KneePhrases)) <= 1
              /\ Contains(m, MsgKneeStraighten)
                    <=> (C14_Measured /\ Num(C14_Reported) < 160000)
              /\ Contains(m, MsgKneeStraighten) =>
                    /\ m[1] = MsgKneeStraighten
                    /\ m[2] = C14_Side
                    /\ m[4] = ToString(C14_Flexion)
              /\ Contains(m, MsgKneeOverextended)
                    <=> (C14_Measured /\ Num(C14_Reported) > 200000)
              /\ Contains(m, MsgKneeLeaning)
                    <=> /\ C14_Measured
                        /\ ~(pose["left_hip"].y + pose["right_hip"].y
                                < pose["left_knee"].y + pose["right_knee"].y)
              /\ Contains(m, MsgKneeLeaning) => m[Len(m)] = MsgKneeLeaning

\* C14's case: hips at 100 and 101, under shoulders at 100: invalid, with the
\* starting-position phrase and the higher-than-your-shoulders phrase together.
C14_Witness ==
    /\ C14_InvalidBridge
    /\ C14_D2 = -1
    /\ Contains(validation.message, MsgBridgeStart)
    /\ Contains(validation.message, MsgBridgeNeed)

-----------------------------------------------------------------------------
(* Selection and frame cycle, under Spec *)

\* C15: a cycle tests and dispatches on one value of the active exercise, the
\* one selected last before its estimator call returned: the verdict on
\* display is that of the validator of the exercise the cycle saw selected,
\* and the step that renders a frame with a pose, with exercise E selected,
\* renders E's validator's verdict on that pose.
C15_OneSelection ==
    /\ [](rendered.validated =>
            /\ ~rendered.sel.isNull
            /\ validation = Dispatch(rendered.sel.id, pose)
            /\ rendered.text = validation.message)
    /\ [][rafQueue' > rafQueue =>
            /\ rendered'.sel = selectedExercise
            /\ selectedExercise' = selectedExercise
            /\ rendered'.validated <=> (rendered'.hasPose /\ ~selectedExercise.isNull)
            /\ rendered'.validated =>
                  /\ validation' = Dispatch(selectedExercise.id, pose')
                  /\ feedbackText' = validation'.message]_vars

\* C15's case: two cycles got the same pose from the estimator, the exercise
\* was changed between their renderings, and the later one shows the verdict
\* of the later selection, which differs from the earlier one.
C15_Witness ==
    /\ memo.set
    /\ rendered.validated
    /\ memo.frame < rendered.frame
    /\ memo.pose = pose
    /\ memo.sel # rendered.sel
    /\ selectedExercise = rendered.sel
    /\ validation = Dispatch(selectedExercise.id, pose)
    /\ validation # memo.result

-----------------------------------------------------------------------------
(* Acceptance of a consultation, under SpecAccept *)

\* The users whose accept request for consultation c was answered with
\* success.
C16_Accepted(c) ==
    {u \in Users : /\ requests[u].pc = "done"
                   /\ requests[u].consultationId = c
                   /\ requests[u].status = 200}

\* C16: a consultation is accepted at most once: of the accept requests for
\* one consultation at most one is answered with success, with status
\* 'active', and that doctor is its doctorId; every other doctor's request that
\* found the consultation is answered 'Consultation not available', unless
\* the database failed; a doctorId once set is never overwritten by another
\* doctor's, and status only moves from 'waiting' to 'active'.
C16_AcceptedOnce ==
    /\ [](\A c \in ConsultationIds :
            /\ Cardinality(C16_Accepted(c)) <= 1
            /\ \A u \in C16_Accepted(c) :
                  /\ requests[u].body = "active"
                  /\ consultations[c].status = "active"
                  /\ consultations[c].doctorId = u
            /\ \A u \in Users \ C16_Accepted(c) :
                  (/\ requests[u].pc = "done"
                   /\ requests[u].consultationId = c
                   /\ requests[u].status \notin {403, 404, 500})
                  => (/\ requests[u].status = 400
                      /\ requests[u].body = "Consultation not available"))
    /\ [][\A c \in ConsultationIds :
            /\ consultations[c].doctorId # NoDoctor
                  => consultations'[c].doctorId = consultations[c].doctorId
            /\ (consultations[c].exists /\ consultations'[c].status # consultations[c].status)
                  => (consultations[c].status = "waiting"
                      /\ consultations'[c].status = "active")]_vars

=============================================================================
